---- MODULE Spec2Model ----
(***************************************************************************)
(* Offense tracking and rule escalation of deepdos (src/firewall.py).      *)
(*                                                                         *)
(* The state is one Firewall object (the IPtable backend): its live table  *)
(* of Offenders and its two ban dictionaries.  One action per method:      *)
(* track_ips (the whole loop over one connection_list) and remove_rules.   *)
(* History variables record what each loop iteration did.  SpecDeepDos     *)
(* puts the DeepDos executor of src/deepdos/__main__.py in front of it:    *)
(* its constructor, which calls the firewall factory, and                  *)
(* evaluate_network_data.                                                  *)
(***************************************************************************)
EXTENDS Integers, Sequences, FiniteSets, TLC

(***************************************************************************)
(* Bounds of the model.                                                    *)
(***************************************************************************)
MaxNaughty == 2      \* naughty_count is drawn from 0..MaxNaughty
MaxFlows == 3        \* flows fed in one behaviour of Spec
MaxKeyFlows == 5     \* flows fed in one behaviour of SpecKey
MaxBatch == 2        \* longest connection_list handed to one track_ips call

(***************************************************************************)
(* Inputs.                                                                 *)
(***************************************************************************)
LocalIp == "10.0.0.5"
PortPairs == {<<4444, 80>>, <<80, 4444>>}
Protocols == {"TCP", "UDP"}

\* (from_ip, to_ip) of the flows fed in Spec: outbound, outbound, inbound (the
\* reverse of the second), and one with no local side.
Connections ==
  {<<LocalIp, "1.2.3.4">>, <<LocalIp, "8.8.8.8">>, <<"8.8.8.8", LocalIp>>,
   <<"1.2.3.4", "8.8.8.8">>}

\* A classified flow, as track_ips unpacks it: (ips, ports, protocol).
Flows ==
  {<<ips, pp, "TCP">> : ips \in Connections, pp \in PortPairs}

\* Flows of the single connection 10.0.0.5 -> 1.2.3.4, fed in SpecKey.
KeyFlows ==
  {<<<<LocalIp, "1.2.3.4">>, pp, "TCP">> : pp \in PortPairs}
    \cup {<<<<LocalIp, "1.2.3.4">>, <<4444, 80>>, pr>> : pr \in Protocols}

\* The non-empty connection lists over a set of flows, at most MaxBatch and
\* at most room flows long.
ConnectionLists(S, room) ==
  UNION {[1..n -> S] : n \in 1..(IF room < MaxBatch THEN room ELSE MaxBatch)}

(***************************************************************************)
(* Python values.                                                          *)
(***************************************************************************)
\* Elements of the heterogeneous set port_mappings: a bare int, a bare str
\* or a (port, protocol) tuple.
PyInt(p) == <<"int", p, "">>
PyStr(s) == <<"str", 0, s>>
PyTuple(p, s) == <<"tuple", p, s>>

\* set((port, protocol)): the set built from the ITEMS of the tuple.
SetOfTuple(port, protocol) == {PyInt(port), PyStr(protocol)}

\* A dict as a function on its key set.
EmptyDict == [k \in {} |-> 0]
DictSet(d, k, v) == [x \in (DOMAIN d) \cup {k} |-> IF x = k THEN v ELSE d[x]]
\* the del forgotten
DictDel_keep(d, k) == d
DictDel(d, k) == [x \in (DOMAIN d) \ {k} |-> d[x]]

\* f"{from_ip}/{to_ip}": the addresses never contain "/", so the string is
\* kept as its three pieces.
\* the two addresses in the wrong order
Connection_reversed(from_ip, to_ip) == <<to_ip, "/", from_ip>>
\* the key normalised to put the local side first
Connection_localfirst(from_ip, to_ip) ==
  IF to_ip = LocalIp THEN <<to_ip, "/", from_ip>> ELSE <<from_ip, "/", to_ip>>
Connection(from_ip, to_ip) == <<from_ip, "/", to_ip>>

(***************************************************************************)
(* Configuration.                                                          *)
(***************************************************************************)
ip_version == 2
interface_data == [v \in {ip_version} |-> [address |-> LocalIp]]
local_ip == interface_data[ip_version].address

\* options["firewall"] as handed to DeepDos: "" stands for a falsy value.
FirewallOptions == {"", "linux", "Linux", "windows"}

VARIABLES
  active_firewall, \* DeepDos.active_firewall
  firewall,        \* DeepDos.firewall: "unset", "None" or "IPtable"
  error,           \* message of the ValueError the factory raised, in pieces
  evaluated,       \* the malicious flows evaluate_network_data has found
  naughty_count,   \* Firewall.naughty_count
  offenders,       \* Firewall.offenders: connection -> Offender
  input_banned,    \* Firewall.input_banned: address -> minute
  output_banned,   \* Firewall.output_banned: address -> minute
  history,         \* one record per loop iteration of track_ips, oldest first
  outcome,         \* how the last track_ips call ended
  unprocessed      \* flows of the last connection_list the loop never reached

tracker == <<offenders, input_banned, output_banned, history, unprocessed>>
deepdos == <<active_firewall, firewall, error, evaluated>>
vars == <<active_firewall, firewall, error, evaluated, naughty_count,
          offenders, input_banned, output_banned, history, outcome,
          unprocessed>>

(***************************************************************************)
(* Offender.                                                               *)
(***************************************************************************)
\* the count started at 0
NewOffender_zero(src, port, protocol, outbound) ==
  [src |-> src,
   offenses |-> 0,
   port_mappings |-> SetOfTuple(port, protocol),
   outbound |-> outbound]

NewOffender(src, port, protocol, outbound) ==
  [src |-> src,
   offenses |-> 1,
   port_mappings |-> SetOfTuple(port, protocol),
   outbound |-> outbound]

\* add_offense without the increment
add_offense_nocount(o, port, protocol) ==
  [o EXCEPT !.port_mappings = @ \cup {PyTuple(port, protocol)}]

add_offense(o, port, protocol) ==
  [o EXCEPT !.offenses = @ + 1,
            !.port_mappings = @ \cup {PyTuple(port, protocol)}]

(***************************************************************************)
(* IPtable.create_rule: prints and returns; nothing after the return runs, *)
(* so neither ban dictionary is written.  The call raises only when the    *)
(* backend fails (the print fails, or another backend's create_rule does). *)
(***************************************************************************)
create_rule(banned, offender) == banned

(***************************************************************************)
(* track_ips.                                                              *)
(***************************************************************************)
\* the comparison inverted
Outbound_inverted(from_ip) == from_ip # local_ip
Outbound(from_ip) == from_ip = local_ip
Port(outbound, from_port, to_port) == IF outbound THEN from_port ELSE to_port
\* the threshold one too high
TooMany_late(offender, n) == offender.offenses > n + 1
TooMany(offender, n) == offender.offenses > n

\* the entry dropped when create_rule raises
OnRaise_forget(s, connection, e, rest) ==
  [s EXCEPT !.offenders = DictDel(@, connection),
            !.history = Append(@, e),
            !.outcome = "raised",
            !.unprocessed = rest]

\* create_rule raises at line 98: the exception leaves the loop and track_ips
\* before the del of line 99; rest is what the loop had not reached.
OnRaise(s, connection, e, rest) ==
  [s EXCEPT !.history = Append(@, e),
            !.outcome = "raised",
            !.unprocessed = rest]

\* One iteration of the loop body on flow number i of connection_list;
\* raiseAt is the iteration in which the backend fails (0: never).
RECURSIVE Loop(_, _, _, _)
Loop(s, connection_list, i, raiseAt) ==
  IF i > Len(connection_list)
  THEN [s EXCEPT !.outcome = "returned", !.unprocessed = <<>>]
  ELSE
    LET flow == connection_list[i]
        from_ip == flow[1][1]
        to_ip == flow[1][2]
        from_port == flow[2][1]
        to_port == flow[2][2]
        protocol == flow[3]
        outbound == Outbound(from_ip)
        port == Port(outbound, from_port, to_port)
        connection == Connection(from_ip, to_ip)
        entry(ev, o) == [flow |-> flow, outbound |-> outbound, port |-> port,
                         event |-> ev, offender |-> o]
    IN
    IF connection \in DOMAIN s.offenders
    THEN
      LET offender == s.offenders[connection] IN
      IF TooMany(offender, s.naughty_count)
      THEN
        IF raiseAt = i
        THEN OnRaise(s, connection, entry("raised", offender),
                     SubSeq(connection_list, i + 1, Len(connection_list)))
        ELSE
          LET banned == create_rule([input |-> s.input_banned,
                                     output |-> s.output_banned], offender)
          IN Loop([s EXCEPT !.input_banned = banned.input,
                            !.output_banned = banned.output,
                            !.offenders = DictDel(@, connection),
                            !.history = Append(@, entry("rule", offender))],
                  connection_list, i + 1, raiseAt)
      ELSE
        LET o == add_offense(offender, port, protocol) IN
        Loop([s EXCEPT !.offenders = DictSet(@, connection, o),
                       !.history = Append(@, entry("offense", o))],
             connection_list, i + 1, raiseAt)
    ELSE
      LET o == NewOffender(connection, port, protocol, outbound) IN
      Loop([s EXCEPT !.offenders = DictSet(@, connection, o),
                     !.history = Append(@, entry("tracked", o))],
           connection_list, i + 1, raiseAt)

\* A tracker as Firewall.__init__ leaves it.
EmptyTracker(n) ==
  [naughty_count |-> n,
   offenders |-> EmptyDict,
   input_banned |-> EmptyDict,
   output_banned |-> EmptyDict,
   history |-> <<>>,
   outcome |-> "constructed",
   unprocessed |-> <<>>]

\* the live table started afresh on every call
track_ips_fresh(connection_list, raiseAt, limit) ==
  /\ firewall = "IPtable"
  /\ Len(history) + Len(connection_list) <= limit
  /\ LET s == Loop([naughty_count |-> naughty_count,
                    offenders |-> EmptyDict,
                    input_banned |-> input_banned,
                    output_banned |-> output_banned,
                    history |-> history,
                    outcome |-> outcome,
                    unprocessed |-> unprocessed],
                   connection_list, 1, raiseAt)
     IN /\ offenders' = s.offenders
        /\ input_banned' = s.input_banned
        /\ output_banned' = s.output_banned
        /\ history' = s.history
        /\ outcome' = s.outcome
        /\ unprocessed' = s.unprocessed
  /\ UNCHANGED naughty_count

track_ips(connection_list, raiseAt, limit) ==
  /\ firewall = "IPtable"
  /\ Len(history) + Len(connection_list) <= limit
  /\ LET s == Loop([naughty_count |-> naughty_count,
                    offenders |-> offenders,
                    input_banned |-> input_banned,
                    output_banned |-> output_banned,
                    history |-> history,
                    outcome |-> outcome,
                    unprocessed |-> unprocessed],
                   connection_list, 1, raiseAt)
     IN /\ offenders' = s.offenders
        /\ input_banned' = s.input_banned
        /\ output_banned' = s.output_banned
        /\ history' = s.history
        /\ outcome' = s.outcome
        /\ unprocessed' = s.unprocessed
  /\ UNCHANGED naughty_count

\* IPtable.remove_rules: pass.
remove_rules ==
  /\ UNCHANGED vars

(***************************************************************************)
(* Specifications.                                                         *)
(***************************************************************************)
\* Firewall.__init__, reached through create_firewall(..., "linux", ...)
Init ==
  /\ active_firewall = "linux"
  /\ firewall = "IPtable"
  /\ error = <<>>
  /\ evaluated = <<>>
  /\ naughty_count \in 0..MaxNaughty
  /\ offenders = EmptyDict
  /\ input_banned = EmptyDict
  /\ output_banned = EmptyDict
  /\ history = <<>>
  /\ outcome = "constructed"
  /\ unprocessed = <<>>

TrackFlows ==
  \E connection_list \in ConnectionLists(Flows, MaxFlows - Len(history)) :
    \E raiseAt \in 0..Len(connection_list) :
      track_ips(connection_list, raiseAt, MaxFlows) /\ UNCHANGED deepdos

TrackKeyFlows ==
  \E connection_list \in ConnectionLists(KeyFlows, MaxKeyFlows - Len(history)) :
    \E raiseAt \in 0..Len(connection_list) :
      track_ips(connection_list, raiseAt, MaxKeyFlows) /\ UNCHANGED deepdos

Next == TrackFlows \/ remove_rules
NextKey == TrackKeyFlows \/ remove_rules

Spec == Init /\ [][Next]_vars
SpecKey == Init /\ [][NextKey]_vars

(***************************************************************************)
(* The firewall factory and the DeepDos executor.                          *)
(***************************************************************************)
\* The ValueError message of create_firewall.  The literal is not an
\* f-string, so its tail is the text "{firewall_type}" itself.
UnsupportedMessage ==
  <<"linux", " is the only supported operating system for firewall mode.",
    " You entered: ", "{firewall_type}">>

\* also accepts the capitalised spelling
create_firewall_anycase(firewall_type) ==
  IF firewall_type \in {"linux", "Linux"}
  THEN [object |-> "IPtable", message |-> <<>>]
  ELSE [object |-> "unset", message |-> UnsupportedMessage]

\* Firewall.create_firewall: the object returned, or the message raised.
create_firewall(firewall_type) ==
  IF firewall_type = "linux"
  THEN [object |-> "IPtable", message |-> <<>>]
  ELSE [object |-> "unset", message |-> UnsupportedMessage]

\* Truth value of an option.
Truthy(x) == x # ""

\* The methods a Firewall object has.
FirewallMethods == {"create_firewall", "create_rule", "remove_rules", "track_ips"}

\* Before DeepDos(options): the options are chosen, nothing is constructed.
InitDeepDos ==
  /\ active_firewall \in FirewallOptions
  /\ firewall = "unset"
  /\ error = <<>>
  /\ evaluated = <<>>
  /\ naughty_count \in 0..MaxNaughty
  /\ offenders = EmptyDict
  /\ input_banned = EmptyDict
  /\ output_banned = EmptyDict
  /\ history = <<>>
  /\ outcome = "start"
  /\ unprocessed = <<>>

\* DeepDos.__init__, "Setup the firewall".
DeepDosInit ==
  /\ outcome = "start"
  /\ IF Truthy(active_firewall)
     THEN LET r == create_firewall(active_firewall)
          IN /\ firewall' = r.object
             /\ error' = r.message
             /\ outcome' = IF r.message = <<>> THEN "constructed" ELSE "raised"
     ELSE /\ firewall' = "None"
          /\ error' = <<>>
          /\ outcome' = "constructed"
  /\ UNCHANGED <<active_firewall, evaluated, naughty_count, tracker>>

\* DeepDos.evaluate_network_data from "If there is an active firewall" on.
\* An exception other than ValueError ends main_loop.
evaluate_network_data(malicious_flows) ==
  /\ firewall \in {"None", "IPtable"}
  /\ outcome # "raised"
  /\ Len(evaluated) + Len(malicious_flows) <= MaxFlows
  /\ evaluated' = evaluated \o malicious_flows
  /\ IF firewall # "None"
     THEN IF "track_flows" \in FirewallMethods
          THEN \E raiseAt \in 0..Len(malicious_flows) :
                 track_ips(malicious_flows, raiseAt, MaxFlows)
          ELSE \* AttributeError: the Firewall has no track_flows
               /\ outcome' = "raised"
               /\ UNCHANGED <<naughty_count, tracker>>
     ELSE UNCHANGED <<naughty_count, tracker, outcome>>
  /\ UNCHANGED <<active_firewall, firewall, error>>

EvaluateFlows ==
  \E malicious_flows \in ConnectionLists(Flows, MaxFlows - Len(evaluated)) :
    evaluate_network_data(malicious_flows)

NextDeepDos == DeepDosInit \/ EvaluateFlows
SpecDeepDos == InitDeepDos /\ [][NextDeepDos]_vars

(***************************************************************************)
(* Reading the history.                                                    *)
(***************************************************************************)
KeyOf(flow) == Connection(flow[1][1], flow[1][2])
Steps == DOMAIN history
\* the iterations in which create_rule was called and returned
Rules == {i \in Steps : history[i].event = "rule"}
\* the iterations in which create_rule was called at all
Calls == {i \in Steps : history[i].event \in {"rule", "raised"}}
NoFailure == \A i \in Steps : history[i].event # "raised"
OneKey == \A i \in Steps : KeyOf(history[i].flow) = KeyOf(history[1].flow)
Registry == (DOMAIN input_banned) \cup (DOMAIN output_banned)
E2EFlow == <<<<LocalIp, "1.2.3.4">>, <<4444, 80>>, "TCP">>
SetMax(S) == CHOOSE x \in S : \A y \in S : y <= x
SetMin(S) == CHOOSE x \in S : \A y \in S : x <= y
\* the iterations before / after i whose flow has the key of flow i
Earlier(i) == {j \in 1..(i - 1) : KeyOf(history[j].flow) = KeyOf(history[i].flow)}
Later(i) ==
  {j \in (i + 1)..Len(history) : KeyOf(history[j].flow) = KeyOf(history[i].flow)}

(***************************************************************************)
(* C1.  With naughty_count = 2, three flows of one key fed into an empty   *)
(* table cause exactly one create_rule call, made while the third flow is  *)
(* processed.                                                              *)
(***************************************************************************)
C1_OneRuleOnThirdFlow ==
  (naughty_count = 2 /\ Len(history) = 3 /\ OneKey) => Calls = {3}

(***************************************************************************)
(* C2.  Every Offender in the live table has offenses <= naughty_count.    *)
(***************************************************************************)
C2_LiveCountWithinThreshold ==
  \A k \in DOMAIN offenders : offenders[k].offenses <= naughty_count

(***************************************************************************)
(* C3.  Flows of one key fed into an empty table, the backend not failing: *)
(* until the first escalation the Offender's count after the N-th flow is  *)
(* N; right after the escalating flow the key is absent from the table;    *)
(* the flow after that re-creates it.                                      *)
(***************************************************************************)
C3_CountEqualsFlowsUntilEscalation ==
  (history # <<>> /\ OneKey /\ NoFailure) =>
    LET N == Len(history)
        K == KeyOf(history[1].flow)
    IN /\ \A i \in Steps :
            (\A j \in 1..i : j \notin Rules) => history[i].offender.offenses = i
       /\ Rules = {} => (K \in DOMAIN offenders /\ offenders[K].offenses = N)
       /\ N \in Rules => K \notin DOMAIN offenders
       /\ (N > 1 /\ N - 1 \in Rules) =>
            (history[N].event = "tracked" /\ K \in DOMAIN offenders)

C3_Witness ==
  /\ NoFailure
  /\ naughty_count = 2
  /\ Len(history) = 5
  /\ Rules = {4}
  /\ history[3].offender.offenses = 3
  /\ history[5].event = "tracked"

(***************************************************************************)
(* C4.  End to end, naughty_count = 1, local address 10.0.0.5: the flow    *)
(* ((10.0.0.5, 1.2.3.4), (4444, 80), "TCP") creates an Offender of count   *)
(* 1; the same flow again escalates, and the rule matches 1.2.3.4, is      *)
(* OUTBOUND and has exactly the port match (4444, "TCP").                  *)
(***************************************************************************)
C4_EndToEnd ==
  (naughty_count = 1 /\ \A i \in Steps : history[i].flow = E2EFlow) =>
    /\ Len(history) >= 1 =>
         (history[1].event = "tracked" /\ history[1].offender.offenses = 1)
    /\ Len(history) >= 2 =>
         /\ history[2].event = "rule"
         /\ history[2].offender.outbound
         /\ history[2].offender.port_mappings = {PyTuple(4444, "TCP")}
         /\ "1.2.3.4" \in DOMAIN output_banned

(***************************************************************************)
(* C5.  After an escalation whose create_rule returned, the ban dictionary *)
(* of the offender's direction (output_banned if outbound, input_banned    *)
(* otherwise) holds an entry, stamped with a whole minute.                 *)
(***************************************************************************)
C5_BanRecorded ==
  \A i \in Rules :
    LET banned == IF history[i].offender.outbound THEN output_banned
                  ELSE input_banned
    IN /\ DOMAIN banned # {}
       /\ \A a \in DOMAIN banned : banned[a] \in Nat

(***************************************************************************)
(* C6.  Two flows of one key with different locally-relevant ports, the    *)
(* second one escalating: the Offender handed to create_rule holds both    *)
(* (port, protocol) pairs.                                                 *)
(***************************************************************************)
C6_BothPortsInRule ==
  (/\ Len(history) >= 2
   /\ KeyOf(history[1].flow) = KeyOf(history[2].flow)
   /\ history[1].port # history[2].port
   /\ 2 \in Calls) =>
    {PyTuple(history[1].port, history[1].flow[3]),
     PyTuple(history[2].port, history[2].flow[3])}
      \subseteq history[2].offender.port_mappings

(***************************************************************************)
(* C7.  For an escalated Offender with exactly one local side, the address *)
(* the rule matches, which is the key of the ban entry, is the other side. *)
(***************************************************************************)
C7_RuleMatchesNonLocal ==
  \A i \in Rules :
    LET from_ip == history[i].flow[1][1]
        to_ip == history[i].flow[1][2]
    IN ((from_ip = local_ip) # (to_ip = local_ip)) =>
         /\ (IF from_ip = local_ip THEN to_ip ELSE from_ip) \in Registry
         /\ local_ip \notin Registry

(***************************************************************************)
(* C8.  A flow is outbound exactly when its from_ip is the local address;  *)
(* the Offender a flow creates carries that direction, and a flow with no  *)
(* local side is tracked all the same, as inbound.                         *)
(***************************************************************************)
C8_DirectionInference ==
  \A i \in Steps :
    LET h == history[i]
        from_ip == h.flow[1][1]
        to_ip == h.flow[1][2]
    IN /\ h.outbound = (from_ip = local_ip)
       /\ h.event = "tracked" => h.offender.outbound = (from_ip = local_ip)
       /\ (from_ip # local_ip /\ to_ip # local_ip) =>
            (h.event \in {"tracked", "offense"} => ~h.offender.outbound)
       /\ (i = Len(history) /\ h.event \in {"tracked", "offense"}) =>
            /\ KeyOf(h.flow) \in DOMAIN offenders
            /\ offenders[KeyOf(h.flow)].outbound = (from_ip = local_ip)

C8_Witness ==
  \E i, j, k \in Steps :
    /\ history[i].flow[1] = <<"10.0.0.5", "8.8.8.8">> /\ history[i].outbound
    /\ history[j].flow[1] = <<"8.8.8.8", "10.0.0.5">> /\ ~history[j].outbound
    /\ history[k].flow[1] = <<"1.2.3.4", "8.8.8.8">>
    /\ history[k].event = "tracked" /\ ~history[k].offender.outbound

(***************************************************************************)
(* C10.  When create_rule raises during an escalation, the rest of the     *)
(* connection_list is still processed.                                     *)
(***************************************************************************)
C10_FailureContained ==
  outcome = "raised" => unprocessed = <<>>

(***************************************************************************)
(* C11.  create_firewall returns a backend only for "linux"; for any other *)
(* platform string it fails at once, leaving no Firewall object and no     *)
(* tracker state, with a message that names the supported value "linux".   *)
(***************************************************************************)
C11_FactoryOnlyLinux ==
  /\ firewall = "IPtable" => (active_firewall = "linux" /\ error = <<>>)
  /\ (outcome # "start" /\ Truthy(active_firewall) /\ active_firewall # "linux") =>
       /\ outcome = "raised"
       /\ firewall = "unset"
       /\ \E i \in DOMAIN error : error[i] = "linux"
       /\ offenders = EmptyDict /\ history = <<>> /\ evaluated = <<>>
       /\ Registry = {}

C11_Witness ==
  /\ active_firewall = "Linux"
  /\ outcome = "raised"
  /\ error # <<>>

(***************************************************************************)
(* C12.  With enforcement disabled a no-op backend is still driven by the  *)
(* flow stream: every malicious flow that is evaluated is tracked.         *)
(***************************************************************************)
C12_ObserveOnlyTracks ==
  (firewall = "None") => Len(history) = Len(evaluated)

(***************************************************************************)
(* C13.  A flow whose key is not in the live table inserts an Offender     *)
(* with offenses = 1, the direction inferred for the flow, and the port    *)
(* set {(port, protocol)}, port being from_port when outbound and to_port  *)
(* when inbound.                                                           *)
(***************************************************************************)
C13_NewOffenderSinglePair ==
  \A i \in Steps :
    LET h == history[i]
        outbound == h.flow[1][1] = local_ip
        port == IF outbound THEN h.flow[2][1] ELSE h.flow[2][2]
    IN h.event = "tracked" =>
         /\ h.offender.offenses = 1
         /\ h.offender.outbound = outbound
         /\ h.offender.port_mappings = {PyTuple(port, h.flow[3])}

(***************************************************************************)
(* C14.  Escalate then forget.  The flow on which create_rule returns      *)
(* removes its key from the live table and is itself not recorded: the     *)
(* Offender handed over is the one the previous flow of the key left.  The *)
(* next flow of the key starts a new Offender of count 1 that holds only   *)
(* that flow's port and protocol.                                          *)
(***************************************************************************)
C14_EscalateThenForget ==
  \A i \in Rules :
    LET K == KeyOf(history[i].flow) IN
    /\ Earlier(i) # {}
    /\ history[i].offender = history[SetMax(Earlier(i))].offender
    /\ Later(i) = {} => K \notin DOMAIN offenders
    /\ Later(i) # {} =>
         LET h == history[SetMin(Later(i))]
             port == IF h.flow[1][1] = local_ip THEN h.flow[2][1]
                     ELSE h.flow[2][2]
         IN /\ h.event = "tracked"
            /\ h.offender.offenses = 1
            /\ h.offender.port_mappings # {}
            /\ h.offender.port_mappings \subseteq
                 {PyInt(port), PyStr(h.flow[3]), PyTuple(port, h.flow[3])}

C14_Witness ==
  /\ naughty_count = 1
  /\ Len(history) = 4
  /\ Rules = {3}
  /\ history[3].flow # history[4].flow
  /\ history[4].event = "tracked"
  /\ history[4].flow[3] = "UDP"

(***************************************************************************)
(* C15.  Keys are independent.  A track_ips call creates, changes or       *)
(* removes only the live-table entries of the keys of the flows it         *)
(* processes, the reversed key to_ip/from_ip being another key; and, the   *)
(* backend not failing, the entry and the escalations of each key are what *)
(* the flows of that key alone, fed in the same order, produce.            *)
(***************************************************************************)
C15_Frame ==
  LET touched == {<<history'[i].flow[1][1], "/", history'[i].flow[1][2]>> :
                    i \in (Len(history) + 1)..Len(history')}
  IN \A k \in (DOMAIN offenders) \cup (DOMAIN offenders') :
       k \notin touched =>
         /\ k \in DOMAIN offenders
         /\ k \in DOMAIN offenders'
         /\ offenders'[k] = offenders[k]

C15_Projection ==
  NoFailure =>
    \A c \in Connections :
      LET k == <<c[1], "/", c[2]>>
          OfKey(h) == h.flow[1] = c
          alone == Loop(EmptyTracker(naughty_count),
                        [i \in DOMAIN SelectSeq(history, OfKey) |->
                           SelectSeq(history, OfKey)[i].flow],
                        1, 0)
      IN /\ (k \in DOMAIN offenders) = (k \in DOMAIN alone.offenders)
         /\ k \in DOMAIN offenders => offenders[k] = alone.offenders[k]
         /\ SelectSeq(history, OfKey) = alone.history

C15_KeysIndependent == [](C15_Projection) /\ [][C15_Frame]_vars

C15_Witness ==
  /\ naughty_count = 0
  /\ Len(history) = 3
  /\ history[1].flow[1] = <<LocalIp, "8.8.8.8">>
  /\ history[2].flow[1] = <<"8.8.8.8", LocalIp>>
  /\ history[3].flow[1] = <<LocalIp, "8.8.8.8">>
  /\ Rules = {3}
  /\ DOMAIN offenders = {<<"8.8.8.8", "/", LocalIp>>}

(***************************************************************************)
(* C16.  When create_rule raises while key K is escalated, the Offender of *)
(* K stays in the live table with its count, above naughty_count, and its  *)
(* port set as they were, and the next flow of K calls create_rule again   *)
(* with that Offender.                                                     *)
(***************************************************************************)
C16_FailureKeepsOffender ==
  \A i \in Steps :
    history[i].event = "raised" =>
      LET K == KeyOf(history[i].flow)
          o == history[i].offender
      IN /\ o.offenses > naughty_count
         /\ Earlier(i) # {} /\ o = history[SetMax(Earlier(i))].offender
         /\ Later(i) = {} => (K \in DOMAIN offenders /\ offenders[K] = o)
         /\ Later(i) # {} =>
              /\ history[SetMin(Later(i))].event \in {"rule", "raised"}
              /\ history[SetMin(Later(i))].offender = o

C16_Witness ==
  /\ naughty_count = 1
  /\ Len(history) = 4
  /\ history[3].event = "raised"
  /\ history[4].event = "rule"
  /\ history[4].offender.offenses = 2

(***************************************************************************)
(* C17.  Every Offender in the live table has 1 <= offenses <=             *)
(* naughty_count + 1: a flow never raises a count to naughty_count + 2,    *)
(* the flow that finds the count at naughty_count + 1 calls create_rule.   *)
(***************************************************************************)
C17_CountBounds ==
  /\ \A k \in DOMAIN offenders :
       /\ 1 <= offenders[k].offenses
       /\ offenders[k].offenses <= naughty_count + 1
  /\ \A i \in Steps :
       /\ history[i].event = "offense" =>
            history[i].offender.offenses \in 2..(naughty_count + 1)
       /\ (i > 1 /\ Earlier(i) # {}
             /\ history[SetMax(Earlier(i))].event \in {"tracked", "offense"}
             /\ history[SetMax(Earlier(i))].offender.offenses = naughty_count + 1)
            => i \in Calls

C17_Witness ==
  /\ naughty_count = 2
  /\ \E k \in DOMAIN offenders : offenders[k].offenses = 3

(***************************************************************************)
(* C18.  Escalation period.  With naughty_count = n and a backend that     *)
(* does not fail, N flows of one key fed into an empty tracker cause       *)
(* floor(N / (n + 2)) create_rule calls; each call follows exactly n + 1   *)
(* counted flows since the previous call (or the start) and is handed an   *)
(* Offender with offenses = n + 1.                                         *)
(***************************************************************************)
C18_EscalationPeriod ==
  (OneKey /\ NoFailure) =>
    LET n == naughty_count IN
    /\ Calls = {i \in Steps : i % (n + 2) = 0}
    /\ Cardinality(Calls) = Len(history) \div (n + 2)
    /\ \A i \in Calls :
         LET before == {j \in Calls : j < i}
             start == IF before = {} THEN 0 ELSE SetMax(before)
         IN /\ history[i].offender.offenses = n + 1
            /\ Cardinality({j \in (start + 1)..(i - 1) :
                              history[j].event \in {"tracked", "offense"}}) = n + 1

C18_Witness ==
  /\ naughty_count = 0
  /\ NoFailure
  /\ Len(history) = 5
  /\ Calls = {2, 4}

(***************************************************************************)
(* C19.  The live-table entry under key K has src = K, and its outbound    *)
(* flag is (from_ip part of K = local address); the Offender handed to     *)
(* create_rule has the direction of every flow counted for it.             *)
(***************************************************************************)
C19_OffenderConsistent ==
  /\ \A K \in DOMAIN offenders :
       /\ offenders[K].src = K
       /\ offenders[K].outbound = (K[1] = local_ip)
  /\ \A i \in Calls :
       /\ history[i].offender.outbound = (history[i].flow[1][1] = local_ip)
       /\ \A j \in Earlier(i) :
            history[j].outbound = history[i].offender.outbound

C19_Witness ==
  /\ <<LocalIp, "/", "8.8.8.8">> \in DOMAIN offenders
  /\ <<"8.8.8.8", "/", LocalIp>> \in DOMAIN offenders
  /\ offenders[<<LocalIp, "/", "8.8.8.8">>].outbound
  /\ ~offenders[<<"8.8.8.8", "/", LocalIp>>].outbound
  /\ offenders[<<"8.8.8.8", "/", LocalIp>>].offenses = 2

(***************************************************************************)
(* C20.  Batch invariance.  The backend not failing, the live table, the   *)
(* ban dictionaries and the sequence of create_rule calls reached by any   *)
(* number of track_ips calls are those of one track_ips call on the        *)
(* concatenation of their connection lists.                                *)
(***************************************************************************)
C20_BatchInvariance ==
  NoFailure =>
    LET one == Loop(EmptyTracker(naughty_count),
                    [i \in Steps |-> history[i].flow], 1, 0)
    IN /\ offenders = one.offenders
       /\ input_banned = one.input_banned
       /\ output_banned = one.output_banned
       /\ history = one.history

C20_Witness ==
  /\ NoFailure
  /\ Len(history) > MaxBatch
  /\ Rules # {}
  /\ DOMAIN offenders # {}
====
